---- MODULE Spec2Model ----
(***************************************************************************)
(* State-machine model of RealTimeFinancialDashboard.get_screener_data     *)
(* (src/real_time.py): the provider's raw data, the engine's locals, the   *)
(* position inside the call and the outcome handed back to the caller.     *)
(***************************************************************************)
EXTENDS Integers, Sequences, FiniteSets, TLC

VARIABLES
    arg,               \* the symbol the caller passes to get_screener_data
    provider,          \* what yfinance holds: [info, financials, balance_sheet, cashflow]
                       \* and the accessors that raise a fault
    pc,                \* position inside get_screener_data, "idle" between calls
    symbol,            \* local: symbol (suffixed at line 36)
    info,              \* local: info (line 41)
    basic,             \* locals of lines 47-57
    income_statement,  \* local data frame (line 60)
    balance_sheet,     \* local data frame (line 61)
    cash_flow,         \* local data frame (line 62)
    ratios,            \* local data frame (line 71)
    outcome,           \* how the last call ended: None, a bundle, or a raised error
    kept,              \* an outcome the caller kept from an earlier call, with its inputs
    fetched,           \* how often the call has invoked each accessor of the provider
    shared,            \* the raw tables whose cells a local frame shares
    app,               \* the Streamlit session of app.py: its cache and what it shows
    engine             \* the module whose get_screener_data is called

vars == <<arg, provider, pc, symbol, info, basic, income_statement,
          balance_sheet, cash_flow, ratios, outcome, kept, fetched, shared, app, engine>>

-----------------------------------------------------------------------------
(* Floating-point values.  A float is a pair <<p, q>>: the reduced         *)
(* fraction p/q when q > 0, NaN when <<0, 0>>, +inf when <<1, 0>> and      *)
(* -inf when <<-1, 0>>.                                                    *)

NaN == <<0, 0>>
PosInf == <<1, 0>>
NegInf == <<-1, 0>>

Abs(x) == IF x < 0 THEN -x ELSE x

RECURSIVE Gcd(_, _)
Gcd(a, b) == IF b = 0 THEN a ELSE Gcd(b, a % b)

\* the float p/q, q # 0
Rat(p, q) ==
    LET g == Gcd(Abs(p), Abs(q))
        s == IF q < 0 THEN -1 ELSE 1
    IN  <<(s * p) \div g, (s * q) \div g>>

Num(n) == <<n, 1>>
IsNaN(x) == x = NaN
IsInf(x) == x = PosInf \/ x = NegInf
IsFinite(x) == x[2] > 0
Sign(x) == IF x[1] > 0 THEN 1 ELSE IF x[1] < 0 THEN -1 ELSE 0

\* numpy/pandas true division of floats: x/0 is +-inf, 0/0 is NaN, NaN spreads
FDiv(a, b) ==
    IF IsNaN(a) \/ IsNaN(b) THEN NaN
    ELSE IF IsInf(b) THEN (IF IsInf(a) THEN NaN ELSE Num(0))
    ELSE IF b[1] = 0 THEN
        (IF Sign(a) = 0 THEN NaN ELSE IF Sign(a) > 0 THEN PosInf ELSE NegInf)
    ELSE IF IsInf(a) THEN (IF Sign(a) * Sign(b) > 0 THEN PosInf ELSE NegInf)
    ELSE Rat(a[1] * b[2], a[2] * b[1])

FSub(a, b) == Rat(a[1] * b[2] - b[1] * a[2], a[2] * b[2])
FMul(a, b) == Rat(a[1] * b[1], a[2] * b[2])

-----------------------------------------------------------------------------
(* Strings that the code inspects are sequences of one-character strings.  *)

UpperChar(c) ==
    CASE c = "i" -> "I" [] c = "t" -> "T" [] c = "c" -> "C"
      [] c = "n" -> "N" [] c = "s" -> "S" [] OTHER -> c

\* str.upper()
Upper(s) == [i \in DOMAIN s |-> UpperChar(s[i])]

\* str.endswith(suffix)
EndsWith(s, suffix) ==
    /\ Len(s) >= Len(suffix)
    /\ SubSeq(s, Len(s) - Len(suffix) + 1, Len(s)) = suffix

SUFFIX == <<".", "N", "S">>

\* the suffix looked for as it is spelt
SuffixedCaseSensitive(s) == IF ~EndsWith(s, SUFFIX) THEN s \o SUFFIX ELSE s

\* lines 35-36: the symbol handed to yf.Ticker
Suffixed(s) == IF ~EndsWith(Upper(s), SUFFIX) THEN s \o SUFFIX ELSE s

Digit(d) == <<"0", "1", "2", "3", "4", "5", "6", "7", "8", "9">>[d + 1]

\* Timestamp.strftime('%Y'): the four digits of the year
StrftimeY(date) ==
    LET y == date[1]
    IN  <<Digit(y \div 1000), Digit((y \div 100) % 10),
          Digit((y \div 10) % 10), Digit(y % 10)>>

-----------------------------------------------------------------------------
(* The info record is a dict: a function on the keys that are present.     *)
(* A present key holds None or a float (longName holds a name).            *)

None == <<"None">>

\* a Python str that the code only passes on
Str(s) == <<"str", s>>

\* the default taken for a null value as well: d.get(key) or default
DictGetOr(d, key, default) ==
    IF key \in DOMAIN d /\ d[key] # None THEN d[key] ELSE default

\* dict.get(key, default)
DictGet(d, key, default) == IF key \in DOMAIN d THEN d[key] ELSE default

\* Python truthiness of None or a number
Truthy(v) == v # None /\ v # Num(0)

-----------------------------------------------------------------------------
(* Data frames.  A frame has n rows (RangeIndex 0..n-1), the column        *)
(* produced by reset_index (renamed 'years'), and one column per line item.*)

EmptyFrame == [n |-> 0, years |-> <<>>, cols |-> <<>>]

\* raw.transpose().reset_index(): report dates become the rows, the dates
\* themselves the column 'index'; a new frame, the raw table is not touched
TransposeResetIndex(raw) ==
    [n |-> Len(raw.dates), years |-> raw.dates, cols |-> raw.rows]

\* lines 66-68: rename 'index' to 'years', then format each date as '%Y'
RenameFormat(df) ==
    [df EXCEPT !.years = [i \in 1..df.n |-> StrftimeY(df.years[i])]]

\* DataFrame.get(item, default): the column as a Series, or the default scalar
FrameGet(df, item, default) ==
    IF item \in DOMAIN df.cols
    THEN [series |-> TRUE, vals |-> df.cols[item]]
    ELSE [series |-> FALSE, vals |-> <<default>>]

Max(a, b) == IF a >= b THEN a ELSE b

\* a / b for Series and scalars; two Series align on their RangeIndex, the
\* result covers the union of the labels with NaN where either has none
Divide(a, b) ==
    IF a.series /\ b.series THEN
        [series |-> TRUE,
         vals |-> [i \in 1..Max(Len(a.vals), Len(b.vals)) |->
                     IF i <= Len(a.vals) /\ i <= Len(b.vals)
                     THEN FDiv(a.vals[i], b.vals[i]) ELSE NaN]]
    ELSE IF a.series THEN
        [series |-> TRUE, vals |-> [i \in 1..Len(a.vals) |-> FDiv(a.vals[i], b.vals[1])]]
    ELSE IF b.series THEN
        [series |-> TRUE, vals |-> [i \in 1..Len(b.vals) |-> FDiv(a.vals[1], b.vals[i])]]
    ELSE [series |-> FALSE, vals |-> <<FDiv(a.vals[1], b.vals[1])>>]

\* whether df[...] = value first gives an index-less frame the value's index
\* (DataFrame._ensure_valid_index), filling the existing columns with NaN
TakesIndex(df, value) == df.n = 0 /\ value.series /\ Len(value.vals) > 0

\* the frame reindexed to m rows, NaN in every new cell
ReindexFrame(df, m) ==
    [n |-> m,
     years |-> [i \in 1..m |-> IF i <= df.n THEN df.years[i] ELSE NaN],
     cols |-> [c \in DOMAIN df.cols |->
                 [i \in 1..m |-> IF i <= df.n THEN df.cols[c][i] ELSE NaN]]]

\* the value as a column of n rows: a scalar is broadcast, a Series is
\* reindexed to the frame's index (cut, or padded with NaN)
AsColumn(value, n) ==
    [i \in 1..n |->
        IF ~value.series THEN value.vals[1]
        ELSE IF i <= Len(value.vals) THEN value.vals[i] ELSE NaN]

\* df['years'] = value
SetYears(df, value) ==
    LET base == IF TakesIndex(df, value) THEN ReindexFrame(df, Len(value.vals)) ELSE df
    IN  [base EXCEPT !.years = AsColumn(value, base.n)]

\* df[name] = value
SetItem(df, name, value) ==
    LET base == IF TakesIndex(df, value) THEN ReindexFrame(df, Len(value.vals)) ELSE df
    IN  [base EXCEPT !.cols =
            [c \in DOMAIN base.cols \cup {name} |->
                IF c = name THEN AsColumn(value, base.n) ELSE base.cols[c]]]

\* a fill that replaces nothing
KeepCell(x) == x

FillCell(x) == IF x = NaN THEN Num(0) ELSE x

\* df.fillna(0): every NaN cell of every column becomes 0; +-inf stays
FillNa(df) ==
    [n |-> df.n,
     years |-> [i \in 1..df.n |-> FillCell(df.years[i])],
     cols |-> [c \in DOMAIN df.cols |-> [i \in 1..df.n |-> FillCell(df.cols[c][i])]]]

\* df.to_dict('records'): one dict per row, keyed by column name
ToRecords(df) ==
    [i \in 1..df.n |->
        [c \in DOMAIN df.cols \cup {"years"} |->
            IF c = "years" THEN df.years[i] ELSE df.cols[c][i]]]

-----------------------------------------------------------------------------
(* The steps of get_screener_data.                                         *)

Pending == [kind |-> "pending"]
ReturnNone == [kind |-> "None"]
Raised(e) == [kind |-> "raise", error |-> e]
Returned(data) == [kind |-> "bundle", data |-> data]

NoBasic == <<>>

\* a gate that tests only whether the record is empty
GateFailsWhenEmpty(i) == DOMAIN i = {}

\* line 42: not info or info.get('regularMarketPrice') is None
GateFails(i) == DOMAIN i = {} \/ DictGet(i, "regularMarketPrice", None) = None

\* line 48
CurrentPrice(i) == DictGet(i, "currentPrice", DictGet(i, "regularMarketPrice", Num(0)))

\* line 49
PreviousClose(i) == DictGet(i, "previousClose", Num(0))

\* line 50 raises TypeError when an operand of the subtraction is None
ChangeRaises(i) == CurrentPrice(i) = None \/ PreviousClose(i) = None

\* the change taken relative to the current price
ChangePercentOfPrice(i) ==
    LET current_price == CurrentPrice(i)
        previous_close == PreviousClose(i)
        change == FSub(current_price, previous_close)
    IN  IF Truthy(previous_close)
        THEN FMul(FDiv(change, current_price), Num(100))
        ELSE Num(0)

\* lines 50-51: (change / previous_close) * 100 if previous_close else 0
ChangePercent(i) ==
    LET current_price == CurrentPrice(i)
        previous_close == PreviousClose(i)
        change == FSub(current_price, previous_close)
    IN  IF Truthy(previous_close)
        THEN FMul(FDiv(change, previous_close), Num(100))
        ELSE Num(0)

\* lines 47-57
BasicInfo(i) ==
    LET current_price == CurrentPrice(i)
        previous_close == PreviousClose(i)
        change == FSub(current_price, previous_close)
    IN  [company_name |-> DictGet(i, "longName", Str("N/A")),
         current_price |-> current_price,
         previous_close |-> previous_close,
         change |-> change,
         change_percent |-> ChangePercent(i),
         market_cap |-> DictGet(i, "marketCap", Num(0)),
         book_value |-> DictGet(i, "bookValue", Num(0)),
         dividend_yield |-> DictGet(i, "dividendYield", Num(0)),
         pe_ratio |-> DictGet(i, "trailingPE", Num(0)),
         fifty_two_week_high |-> DictGet(i, "fiftyTwoWeekHigh", Num(0)),
         fifty_two_week_low |-> DictGet(i, "fiftyTwoWeekLow", Num(0))]

\* the frame the previous call left behind, in place of a new one
StaleFrame == ratios

\* line 71: ratios = pd.DataFrame()
NewFrame == EmptyFrame

\* income_statement['years'] (line 72): the column as a Series
YearsSeries(df) == [series |-> TRUE, vals |-> df.years]

\* lines 71-79
KeyRatios(inc, bs) ==
    LET r0 == SetYears(NewFrame, YearsSeries(inc))
        r1 == SetItem(r0, "Net Profit Margin",
                 Divide(FrameGet(inc, "Net Income", Num(0)),
                        FrameGet(inc, "Total Revenue", NaN)))
        r2 == SetItem(r1, "Return on Equity (ROE)",
                 Divide(FrameGet(inc, "Net Income", Num(0)),
                        FrameGet(bs, "Total Stockholder Equity", NaN)))
        r3 == SetItem(r2, "Return on Assets (ROA)",
                 Divide(FrameGet(inc, "Net Income", Num(0)),
                        FrameGet(bs, "Total Assets", NaN)))
        r4 == SetItem(r3, "Current Ratio",
                 Divide(FrameGet(bs, "Total Current Assets", Num(0)),
                        FrameGet(bs, "Total Current Liabilities", NaN)))
    IN  SetItem(r4, "Debt to Equity",
                 Divide(FrameGet(bs, "Total Liab", Num(0)),
                        FrameGet(bs, "Total Stockholder Equity", NaN)))

\* line 114 raises TypeError when enterprise_value is None and ebitda is truthy
EvToEbitdaRaises(i) ==
    /\ Truthy(DictGet(i, "ebitda", Num(0)))
    /\ DictGet(i, "enterpriseValue", Num(0)) = None

\* the division guarded against a missing operand only
EvToEbitdaNoZeroTest(i) ==
    LET ebitda == DictGet(i, "ebitda", Num(0))
        enterprise_value == DictGet(i, "enterpriseValue", Num(0))
    IN  IF ebitda # None /\ enterprise_value # None
        THEN FDiv(enterprise_value, ebitda) ELSE Num(0)

\* line 114
EvToEbitda(i) ==
    LET ebitda == DictGet(i, "ebitda", Num(0))
        enterprise_value == DictGet(i, "enterpriseValue", Num(0))
    IN  IF Truthy(ebitda) THEN FDiv(enterprise_value, ebitda) ELSE Num(0)

\* lines 87-118: the dict that is returned
Bundle(sym, i, b, rat, inc, bs, cf) ==
    [symbol |-> sym,
     company_name |-> b.company_name,
     current_price |-> b.current_price,
     change |-> b.change,
     change_percent |-> b.change_percent,
     market_cap |-> b.market_cap,
     book_value |-> b.book_value,
     dividend_yield |-> b.dividend_yield,
     pe_ratio |-> b.pe_ratio,
     financials |->
        [ratios |-> ToRecords(rat),
         income_statement |-> ToRecords(inc),
         balance_sheet |-> ToRecords(bs),
         cash_flow |-> ToRecords(cf)],
     real_time_metrics |->
        [return_on_equity |-> DictGet(i, "returnOnEquity", Num(0)),
         debt_to_equity |-> DictGet(i, "debtToEquity", Num(0)),
         free_cashflow |-> DictGet(i, "freeCashflow", Num(0)),
         enterprise_value |-> DictGet(i, "enterpriseValue", Num(0)),
         ev_to_ebitda |-> EvToEbitda(i),
         fifty_two_week_high |-> b.fifty_two_week_high,
         fifty_two_week_low |-> b.fifty_two_week_low]]

Accessors == {"info", "financials", "balance_sheet", "cashflow"}

NotFetched == [a \in Accessors |-> 0]

\* an accessor that is read twice over
InvokedAgain(f, a) == [f EXCEPT ![a] = @ + 2]

\* one more invocation of the provider's accessor a
Invoked(f, a) == [f EXCEPT ![a] = @ + 1]

\* a frame made without a copy shares the cells of the raw table
SharesCells(table) == {table}

\* the raw tables whose cells the frame made by lines 60-62 shares:
\* reset_index() returns a copy, so none
SharedBy(table) == {}

\* fillna(0, inplace=True) as seen through cells shared with a raw table
FillNaRaw(raw) ==
    [raw EXCEPT !.rows = [it \in DOMAIN raw.rows |->
                            [r \in 1..Len(raw.dates) |-> FillCell(raw.rows[it][r])]]]

\* what the provider holds after the frames were filled in place
AfterFillNa(p, sh) ==
    [p EXCEPT !.financials = IF "financials" \in sh THEN FillNaRaw(@) ELSE @,
              !.balance_sheet = IF "balance_sheet" \in sh THEN FillNaRaw(@) ELSE @,
              !.cashflow = IF "cashflow" \in sh THEN FillNaRaw(@) ELSE @]

\* the accessor raises a network or transport fault
Faulty(a) == a \in provider.faults

\* where the call goes on once it has the info record: to the price gate
\* of src/real_time.py lines 42-44, which the get_screener_data of
\* src/real_time_financial_dashboard.py (lines 38-41) does not have
AfterInfo(e) == IF e = "real_time" THEN "gate" ELSE "basic"

\* lines 25-38: the call starts, the symbol is suffixed, the Ticker is made
Call ==
    /\ pc = "idle"
    /\ pc' = "info"
    /\ symbol' = Suffixed(arg)
    /\ outcome' = Pending
    /\ fetched' = NotFetched
    /\ shared' = {}
    /\ UNCHANGED <<arg, provider, info, basic, income_statement, balance_sheet,
                   cash_flow, ratios, kept, app, engine>>

\* line 41: info = stock.info; a fault of the provider is not caught
FetchInfo ==
    /\ pc = "info"
    /\ fetched' = Invoked(fetched, "info")
    /\ IF Faulty("info")
       THEN pc' = "idle" /\ outcome' = Raised("ProviderError") /\ info' = info
       ELSE pc' = AfterInfo(engine) /\ outcome' = outcome /\ info' = provider.info
    /\ UNCHANGED <<arg, provider, symbol, basic, income_statement, balance_sheet,
                   cash_flow, ratios, kept, shared, app, engine>>

\* lines 42-44: the price gate
PriceGate ==
    /\ pc = "gate"
    /\ IF GateFails(info)
       THEN pc' = "idle" /\ outcome' = ReturnNone
       ELSE pc' = "basic" /\ outcome' = outcome
    /\ UNCHANGED <<arg, provider, symbol, info, basic, income_statement,
                   balance_sheet, cash_flow, ratios, kept, fetched, shared, app, engine>>

\* lines 47-57; the TypeError of line 50 leaves the call
BasicInfoStep ==
    /\ pc = "basic"
    /\ IF ChangeRaises(info)
       THEN pc' = "idle" /\ outcome' = Raised("TypeError") /\ basic' = basic
       ELSE pc' = "financials" /\ outcome' = outcome /\ basic' = BasicInfo(info)
    /\ UNCHANGED <<arg, provider, symbol, info, income_statement, balance_sheet,
                   cash_flow, ratios, kept, fetched, shared, app, engine>>

\* line 60
FetchFinancials ==
    /\ pc = "financials"
    /\ fetched' = Invoked(fetched, "financials")
    /\ IF Faulty("financials")
       THEN /\ pc' = "idle" /\ outcome' = Raised("ProviderError")
            /\ UNCHANGED <<income_statement, shared>>
       ELSE /\ pc' = "balance_sheet" /\ outcome' = outcome
            /\ income_statement' = TransposeResetIndex(provider.financials)
            /\ shared' = shared \cup SharedBy("financials")
    /\ UNCHANGED <<arg, provider, symbol, info, basic, balance_sheet, cash_flow,
                   ratios, kept, app, engine>>

\* line 61
FetchBalanceSheet ==
    /\ pc = "balance_sheet"
    /\ fetched' = Invoked(fetched, "balance_sheet")
    /\ IF Faulty("balance_sheet")
       THEN /\ pc' = "idle" /\ outcome' = Raised("ProviderError")
            /\ UNCHANGED <<balance_sheet, shared>>
       ELSE /\ pc' = "cashflow" /\ outcome' = outcome
            /\ balance_sheet' = TransposeResetIndex(provider.balance_sheet)
            /\ shared' = shared \cup SharedBy("balance_sheet")
    /\ UNCHANGED <<arg, provider, symbol, info, basic, income_statement, cash_flow,
                   ratios, kept, app, engine>>

\* line 62
FetchCashflow ==
    /\ pc = "cashflow"
    /\ fetched' = Invoked(fetched, "cashflow")
    /\ IF Faulty("cashflow")
       THEN /\ pc' = "idle" /\ outcome' = Raised("ProviderError")
            /\ UNCHANGED <<cash_flow, shared>>
       ELSE /\ pc' = "rename" /\ outcome' = outcome
            /\ cash_flow' = TransposeResetIndex(provider.cashflow)
            /\ shared' = shared \cup SharedBy("cashflow")
    /\ UNCHANGED <<arg, provider, symbol, info, basic, income_statement,
                   balance_sheet, ratios, kept, app, engine>>

\* lines 65-68: reset_index always makes the column that is renamed 'years',
\* so the test of line 67 is true for each of the three frames
RenameYears ==
    /\ pc = "rename"
    /\ income_statement' = RenameFormat(income_statement)
    /\ balance_sheet' = RenameFormat(balance_sheet)
    /\ cash_flow' = RenameFormat(cash_flow)
    /\ pc' = "ratios"
    /\ UNCHANGED <<arg, provider, symbol, info, basic, ratios, outcome, kept,
                   fetched, shared, app, engine>>

\* lines 71-79
KeyRatiosStep ==
    /\ pc = "ratios"
    /\ ratios' = KeyRatios(income_statement, balance_sheet)
    /\ pc' = "fillna"
    /\ UNCHANGED <<arg, provider, symbol, info, basic, income_statement,
                   balance_sheet, cash_flow, outcome, kept, fetched, shared, app, engine>>

\* lines 81-84: the frames are filled in place
FillNaStep ==
    /\ pc = "fillna"
    /\ ratios' = FillNa(ratios)
    /\ income_statement' = FillNa(income_statement)
    /\ balance_sheet' = FillNa(balance_sheet)
    /\ cash_flow' = FillNa(cash_flow)
    /\ provider' = AfterFillNa(provider, shared)
    /\ pc' = "assemble"
    /\ UNCHANGED <<arg, symbol, info, basic, outcome, kept, fetched, shared, app, engine>>

\* lines 87-119; the TypeError of line 114 leaves the call
Assemble ==
    /\ pc = "assemble"
    /\ pc' = "idle"
    /\ outcome' = IF EvToEbitdaRaises(info)
                  THEN Raised("TypeError")
                  ELSE Returned(Bundle(symbol, info, basic, ratios, income_statement,
                                       balance_sheet, cash_flow))
    /\ UNCHANGED <<arg, provider, symbol, info, basic, income_statement,
                   balance_sheet, cash_flow, ratios, kept, fetched, shared, app, engine>>

-----------------------------------------------------------------------------
(* The inputs: the symbols a caller passes and the provider's responses.   *)

MaxRows == 2    \* report dates per raw table

ITC == <<"I", "T", "C">>
Symbols == {ITC, ITC \o SUFFIX, <<"i", "t", "c", ".", "n", "s">>}

\* what else a caller may type: mixed case, the suffix twice, the suffix
\* without its dot, the suffix alone, nothing
OddSymbols == {<<"I", "T", "C", ".", "N", "s">>, ITC \o SUFFIX \o SUFFIX,
               <<"i", "t", "c", ".", "n", "s", ".", "N", "S">>,
               <<"I", "T", "C", "N", "S">>, <<"N", "S">>, SUFFIX, <<>>}

\* report dates as <<year, month>>; two of them fall in the same calendar year
ReportDates == {<<2021, 3>>, <<2022, 3>>, <<2022, 12>>}

\* yfinance lists the newest report date first
NewestFirst == <<<<2022, 3>>, <<2021, 3>>, <<2022, 12>>>>

FirstDates(n) == [i \in 1..n |-> NewestFirst[((i - 1) % Len(NewestFirst)) + 1]]

\* every listing of at most MaxRows distinct report dates, in every order
DateSeqs ==
    UNION {{d \in [1..n -> ReportDates] : \A i, j \in 1..n : i # j => d[i] # d[j]}
           : n \in 0..MaxRows}

IncomeItems == {"Total Revenue", "Net Income"}
BalanceItems == {"Total Assets", "Total Stockholder Equity", "Total Current Assets",
                 "Total Current Liabilities", "Total Liab"}
CashItems == {"Total Cash From Operating Activities"}

ItemBase(item) ==
    CASE item = "Total Revenue" -> 100
      [] item = "Net Income" -> 10
      [] item = "Total Assets" -> 400
      [] item = "Total Stockholder Equity" -> 200
      [] item = "Total Current Assets" -> 60
      [] item = "Total Current Liabilities" -> 30
      [] item = "Total Liab" -> 50
      [] OTHER -> 70

\* the amount a company reports for an item at a report date
Reported(item, date) == Num(ItemBase(item) + 2 * (date[1] - 2020) + date[2] \div 12)

EmptyRaw == [dates |-> <<>>, rows |-> <<>>]

\* a raw statement table: line items by report dates; no dates, no table
RawTable(dates, items) ==
    IF Len(dates) = 0 THEN EmptyRaw
    ELSE [dates |-> dates,
          rows |-> [it \in items |-> [i \in 1..Len(dates) |-> Reported(it, dates[i])]]]

\* what a cell of a raw table may hold besides the reported amount
OddCells == {NaN, Num(0), Num(-1)}

\* how one line item of a raw table may deviate: absent, as reported, or one
\* odd cell
ItemStates(n) ==
    {<<"absent">>, <<"reported">>} \cup {<<"cell", r, v>> : r \in 1..n, v \in OddCells}

WithItem(raw, item, st) ==
    IF Len(raw.dates) = 0 \/ st[1] = "reported" THEN raw
    ELSE IF st[1] = "absent"
    THEN [raw EXCEPT !.rows = [it \in DOMAIN raw.rows \ {item} |-> raw.rows[it]]]
    ELSE [raw EXCEPT !.rows[item][st[2]] = st[3]]

InfoKeys == {"longName", "currentPrice", "regularMarketPrice", "previousClose",
             "marketCap", "bookValue", "dividendYield", "trailingPE",
             "fiftyTwoWeekHigh", "fiftyTwoWeekLow", "ebitda", "enterpriseValue",
             "freeCashflow", "debtToEquity", "returnOnEquity"}

\* the keys that enter a subtraction, a division or the price gate
ComputedKeys == {"currentPrice", "regularMarketPrice", "previousClose", "ebitda",
                 "enterpriseValue"}

FullInfo ==
    [longName |-> Str("ITC Limited"), currentPrice |-> Num(440), regularMarketPrice |-> Num(438),
     previousClose |-> Num(400), marketCap |-> Num(5000), bookValue |-> Num(55),
     dividendYield |-> Num(3), trailingPE |-> Num(27), fiftyTwoWeekHigh |-> Num(500),
     fiftyTwoWeekLow |-> Num(390), ebitda |-> Num(250), enterpriseValue |-> Num(6000),
     freeCashflow |-> Num(120), debtToEquity |-> Num(1), returnOnEquity |-> Num(2)]

EmptyInfo == <<>>

KeyStates == {"absent", "null", "zero"}

WithKey(i, key, st) ==
    IF st = "absent" THEN [k \in DOMAIN i \ {key} |-> i[k]]
    ELSE IF st = "null" THEN [i EXCEPT ![key] = None]
    ELSE [i EXCEPT ![key] = IF key = "longName" THEN Str("") ELSE Num(0)]

\* info records: complete, empty, one key deviating, two computed keys deviating
InfoRecords ==
    {FullInfo, EmptyInfo}
    \cup {WithKey(FullInfo, k, st) : k \in InfoKeys, st \in KeyStates}
    \cup {WithKey(WithKey(FullInfo, k1, s1), k2, s2) :
             k1 \in ComputedKeys, k2 \in ComputedKeys, s1 \in KeyStates, s2 \in KeyStates}

\* the keys that are passed on as they are (lines 52-57 and 88-91)
SnapshotKeys == {"marketCap", "bookValue", "dividendYield", "trailingPE",
                 "fiftyTwoWeekHigh", "fiftyTwoWeekLow", "enterpriseValue",
                 "freeCashflow", "debtToEquity", "returnOnEquity"}

\* info records in which two of these keys deviate
SnapshotRecords ==
    {WithKey(WithKey(FullInfo, k1, s1), k2, s2) :
        k1 \in SnapshotKeys, k2 \in SnapshotKeys, s1 \in KeyStates, s2 \in KeyStates}

Response(i, fin, bs, cf) ==
    [info |-> i, financials |-> fin, balance_sheet |-> bs, cashflow |-> cf, faults |-> {}]

ReportedResponse(i, di, db, dc) ==
    Response(i, RawTable(di, IncomeItems), RawTable(db, BalanceItems),
             RawTable(dc, CashItems))

\* the three tables list any report dates in any order, all items reported
DateResponses ==
    {ReportedResponse(FullInfo, di, db, dc) : di \in DateSeqs, db \in DateSeqs, dc \in DateSeqs}

\* the numerator and denominator line item of each ratio, with their tables
RatioItems ==
    {<<"financials", "Net Income", "financials", "Total Revenue">>,
     <<"financials", "Net Income", "balance_sheet", "Total Stockholder Equity">>,
     <<"financials", "Net Income", "balance_sheet", "Total Assets">>,
     <<"balance_sheet", "Total Current Assets", "balance_sheet", "Total Current Liabilities">>,
     <<"balance_sheet", "Total Liab", "balance_sheet", "Total Stockholder Equity">>}

WithTableItem(resp, table, item, st) ==
    IF table = "financials"
    THEN [resp EXCEPT !.financials = WithItem(resp.financials, item, st)]
    ELSE [resp EXCEPT !.balance_sheet = WithItem(resp.balance_sheet, item, st)]

RowsOf(resp, table) ==
    IF table = "financials" THEN Len(resp.financials.dates) ELSE Len(resp.balance_sheet.dates)

\* tables of any two lengths in which the two line items of one ratio deviate
ItemResponses ==
    UNION {UNION {
        LET r0 == ReportedResponse(FullInfo, FirstDates(ni), FirstDates(nb), FirstDates(ni))
        IN  {WithTableItem(WithTableItem(r0, q[1], q[2], sn), q[3], q[4], sd) :
                sn \in ItemStates(RowsOf(r0, q[1])), sd \in ItemStates(RowsOf(r0, q[3]))}
        : q \in RatioItems} : <<ni, nb>> \in (0..MaxRows) \X (0..MaxRows)}

\* any info record with tables that are all there, all empty, or partly empty
InfoResponses ==
    {ReportedResponse(i, FirstDates(t[1]), FirstDates(t[2]), FirstDates(t[3])) :
        i \in InfoRecords,
        t \in {<<0, 0, 0>>, <<MaxRows, MaxRows, MaxRows>>, <<MaxRows, 0, 0>>, <<0, MaxRows, MaxRows>>}}

\* section 8 of the design: revenue [100, 200, 0] and net income [10, 20, 5]
ZeroRevenueScenario ==
    Response(FullInfo,
        [dates |-> <<<<2021, 3>>, <<2022, 3>>, <<2023, 3>>>>,
         rows |-> [it \in IncomeItems |->
                      IF it = "Total Revenue" THEN <<Num(100), Num(200), Num(0)>>
                      ELSE <<Num(10), Num(20), Num(5)>>]],
        EmptyRaw, EmptyRaw)

SnapshotResponses == {ReportedResponse(i, <<>>, <<>>, <<>>) : i \in SnapshotRecords}

WithFaults(resp, fs) == [resp EXCEPT !.faults = fs]

\* any accessors raise, for a provider with prices and one without
FaultResponses ==
    {WithFaults(ReportedResponse(i, FirstDates(MaxRows), FirstDates(MaxRows), FirstDates(1)), fs) :
        i \in {FullInfo, EmptyInfo}, fs \in (SUBSET Accessors) \ {{}}}

Responses ==
    DateResponses \cup ItemResponses \cup InfoResponses \cup {ZeroRevenueScenario}
    \cup FaultResponses \cup SnapshotResponses

\* the inputs of the calls: every response for one symbol, every symbol for
\* a response that passes the price gate and one that does not
Inputs ==
    ({ITC} \X Responses)
    \cup ((Symbols \cup OddSymbols)
           \X {ReportedResponse(FullInfo, FirstDates(MaxRows), FirstDates(MaxRows),
                                FirstDates(MaxRows)),
               ReportedResponse(EmptyInfo, <<>>, <<>>, <<>>)})

-----------------------------------------------------------------------------

\* src/app.py: the session after its first script run.  No button was
\* pressed, 'data' is not in st.session_state (line 131) and the welcome
\* message of line 230 is shown.
NoData == [kind |-> "absent"]

AppStart == [phase |-> "ready", data |-> NoData, shown |-> "welcome",
             last |-> "start", result |-> Pending, earlier |-> NoData]

InitWith(inputs) ==
    /\ \E in \in inputs : arg = in[1] /\ provider = in[2]
    /\ pc = "idle"
    /\ symbol = <<>>
    /\ info = EmptyInfo
    /\ basic = NoBasic
    /\ income_statement = EmptyFrame
    /\ balance_sheet = EmptyFrame
    /\ cash_flow = EmptyFrame
    /\ ratios = EmptyFrame
    /\ outcome = Pending
    /\ kept = <<>>
    /\ fetched = NotFetched
    /\ shared = {}
    /\ app = AppStart
    /\ engine = "real_time"

Init == InitWith(Inputs)

Next ==
    \/ Call
    \/ FetchInfo
    \/ PriceGate
    \/ BasicInfoStep
    \/ FetchFinancials
    \/ FetchBalanceSheet
    \/ FetchCashflow
    \/ RenameYears
    \/ KeyRatiosStep
    \/ FillNaStep
    \/ Assemble

Spec == Init /\ [][Next]_vars

-----------------------------------------------------------------------------
(* A caller that queries again: it may keep an outcome together with the   *)
(* inputs that produced it, and the symbol it passes and the provider's    *)
(* data may change between two calls.                                      *)

TwiceResponses ==
    {ReportedResponse(FullInfo, FirstDates(MaxRows), FirstDates(MaxRows), FirstDates(MaxRows)),
     ReportedResponse(FullInfo, FirstDates(1), FirstDates(MaxRows), <<>>),
     ReportedResponse(FullInfo, <<>>, FirstDates(1), FirstDates(1)),
     ReportedResponse(FullInfo, <<>>, <<>>, <<>>),
     ReportedResponse(WithKey(FullInfo, "previousClose", "null"), FirstDates(1), <<>>, <<>>),
     ReportedResponse(WithKey(FullInfo, "regularMarketPrice", "absent"),
                      FirstDates(1), FirstDates(1), FirstDates(1)),
     WithTableItem(ReportedResponse(FullInfo, FirstDates(MaxRows), FirstDates(1), <<>>),
                   "financials", "Net Income", <<"absent">>)}

TwiceInputs == Symbols \X TwiceResponses

\* the caller holds on to what a call gave it (src/real_time.py line 196)
Keep ==
    /\ pc = "idle"
    /\ outcome # Pending
    /\ kept = <<>>
    /\ kept' = <<[arg |-> arg, provider |-> provider, outcome |-> outcome]>>
    /\ UNCHANGED <<arg, provider, pc, symbol, info, basic, income_statement,
                   balance_sheet, cash_flow, ratios, outcome, fetched, shared, app, engine>>

\* between two calls another symbol is chosen or the provider's data differ;
\* the outcome at hand is not one of the new inputs and is dropped
ChangeInputs ==
    /\ pc = "idle"
    /\ outcome # Pending
    /\ \E in \in TwiceInputs :
          /\ <<arg, provider>> # in
          /\ arg' = in[1]
          /\ provider' = in[2]
    /\ outcome' = Pending
    /\ UNCHANGED <<pc, symbol, info, basic, income_statement, balance_sheet,
                   cash_flow, ratios, kept, fetched, shared, app, engine>>

InitTwice == InitWith(TwiceInputs)

NextTwice == Next \/ Keep \/ ChangeInputs

SpecTwice == InitTwice /\ [][NextTwice]_vars


-----------------------------------------------------------------------------
(* src/app.py.  Every event of the browser runs the script once, from top  *)
(* to bottom.  app.data is st.session_state.data, app.shown is what the    *)
(* run put on the page: the dashboard (the branch of line 131), the        *)
(* welcome message (line 230) or the error of line 126, after which        *)
(* st.stop() ends the run.  app.last, app.result and app.earlier record    *)
(* how the most recent query ended, its outcome, and the cache before it.  *)

\* a cache that an error leaves as it is
KeptAfterError(data) == data

\* line 127: st.session_state.data = None
AfterError(data) == ReturnNone

\* lines 131 and 229: the branch the run takes with the cached data
DisplayOf(data) == IF data.kind = "bundle" THEN "dashboard" ELSE "welcome"

\* what the user types into the sidebar (line 106)
AppSymbols == {<<"i", "t", "c">>, ITC \o SUFFIX}

\* what the provider holds when a query is made
AppResponses ==
    {ReportedResponse(FullInfo, FirstDates(MaxRows), FirstDates(MaxRows), FirstDates(MaxRows)),
     ReportedResponse(FullInfo, FirstDates(1), <<>>, <<>>),
     ReportedResponse(EmptyInfo, FirstDates(1), FirstDates(1), FirstDates(1)),
     ReportedResponse(WithKey(FullInfo, "previousClose", "null"), FirstDates(1), <<>>, <<>>),
     WithFaults(ReportedResponse(FullInfo, FirstDates(1), FirstDates(1), FirstDates(1)),
                {"balance_sheet"})}

AppInputs == AppSymbols \X AppResponses

\* lines 116-120: Generate Dashboard is pressed with a symbol in the box;
\* the engine is called with the symbol in upper case
Generate ==
    /\ app.phase = "ready"
    /\ pc = "idle"
    /\ \E in \in AppInputs :
          /\ arg' = Upper(in[1])
          /\ provider' = in[2]
    /\ outcome' = Pending
    /\ app' = [app EXCEPT !.phase = "fetching", !.earlier = app.data]
    /\ UNCHANGED <<pc, symbol, info, basic, income_statement, balance_sheet,
                   cash_flow, ratios, kept, fetched, shared, engine>>

\* line 120: the steps of get_screener_data
EngineStep ==
    /\ app.phase = "fetching"
    /\ pc # "idle" \/ outcome = Pending
    /\ Next

\* lines 121-128: the bundle is cached and the run goes on to display it;
\* None or an exception clears the cache, shows the error and stops the run
GenerateDone ==
    /\ app.phase = "fetching"
    /\ pc = "idle"
    /\ outcome # Pending
    /\ app' = IF outcome.kind = "bundle"
              THEN [app EXCEPT !.phase = "ready", !.data = Returned(outcome.data),
                               !.shown = DisplayOf(Returned(outcome.data)),
                               !.last = "ok", !.result = outcome]
              ELSE [app EXCEPT !.phase = "ready", !.data = AfterError(app.data),
                               !.shown = "error",
                               !.last = "failed", !.result = outcome]
    /\ UNCHANGED <<arg, provider, pc, symbol, info, basic, income_statement,
                   balance_sheet, cash_flow, ratios, outcome, kept, fetched, shared, engine>>

\* lines 111-113: Clear Cache, and the rerun it asks for
ClearCache ==
    /\ app.phase = "ready"
    /\ app' = [app EXCEPT !.data = ReturnNone, !.shown = DisplayOf(ReturnNone),
                          !.last = "cleared"]
    /\ UNCHANGED <<arg, provider, pc, symbol, info, basic, income_statement,
                   balance_sheet, cash_flow, ratios, outcome, kept, fetched, shared, engine>>

\* a run in which no button is pressed, or Generate Dashboard is pressed
\* with an empty box (line 116): lines 131-230 only
Rerun ==
    /\ app.phase = "ready"
    /\ app' = [app EXCEPT !.shown = DisplayOf(app.data)]
    /\ UNCHANGED <<arg, provider, pc, symbol, info, basic, income_statement,
                   balance_sheet, cash_flow, ratios, outcome, kept, fetched, shared, engine>>

InitApp == InitWith(AppInputs)

NextApp == Generate \/ EngineStep \/ GenerateDone \/ ClearCache \/ Rerun

SpecApp == InitApp /\ [][NextApp]_vars


-----------------------------------------------------------------------------
(* The get_screener_data of src/real_time_financial_dashboard.py is the    *)
(* one of src/real_time.py without the price gate.  To compare them the    *)
(* outcome of the first is kept and the second is called with the same     *)
(* symbol for the same provider data.                                      *)

BothInputs == Inputs

\* src/real_time_financial_dashboard.py line 272: the other module's
\* get_screener_data is called next
SwitchEngine ==
    /\ pc = "idle"
    /\ outcome # Pending
    /\ engine = "real_time"
    /\ kept = <<>>
    /\ kept' = <<[arg |-> arg, provider |-> provider, outcome |-> outcome]>>
    /\ engine' = "real_time_financial_dashboard"
    /\ outcome' = Pending
    /\ UNCHANGED <<arg, provider, pc, symbol, info, basic, income_statement,
                   balance_sheet, cash_flow, ratios, fetched, shared, app>>

\* one call of each
CallStep == (pc # "idle" \/ outcome = Pending) /\ Next

InitBoth == InitWith(BothInputs)

NextBoth == CallStep \/ SwitchEngine

SpecBoth == InitBoth /\ [][NextBoth]_vars

-----------------------------------------------------------------------------
(* What the claims speak about.                                            *)

\* a call has ended and its outcome is the one of the current inputs
Done == pc = "idle" /\ outcome # Pending
NoFault == provider.faults = {}
GotBundle == Done /\ outcome.kind = "bundle"

\* ratio, numerator table and item, denominator table and item
RatioDefs ==
    {<<"Net Profit Margin", "income_statement", "Net Income", "income_statement", "Total Revenue">>,
     <<"Return on Equity (ROE)", "income_statement", "Net Income",
       "balance_sheet", "Total Stockholder Equity">>,
     <<"Return on Assets (ROA)", "income_statement", "Net Income", "balance_sheet", "Total Assets">>,
     <<"Current Ratio", "balance_sheet", "Total Current Assets",
       "balance_sheet", "Total Current Liabilities">>,
     <<"Debt to Equity", "balance_sheet", "Total Liab", "balance_sheet", "Total Stockholder Equity">>}

\* the provider's raw table behind a table of the bundle
RawOf(table) ==
    CASE table = "income_statement" -> provider.financials
      [] table = "balance_sheet" -> provider.balance_sheet
      [] OTHER -> provider.cashflow

RawLacks(table, item) == item \notin DOMAIN RawOf(table).rows

\* the 'years' entries of a list of records
YearsOf(records) == [i \in 1..Len(records) |-> records[i]["years"]]

KeyPresent(i, key) == key \in DOMAIN i /\ i[key] # None

\* neither a live nor a last-session price
NoPrice(i) == ~KeyPresent(i, "currentPrice") /\ ~KeyPresent(i, "regularMarketPrice")

\* an info record with which a query of complete tables returns a bundle
InfoUsable(i) ==
    /\ KeyPresent(i, "regularMarketPrice")
    /\ "currentPrice" \in DOMAIN i => i["currentPrice"] # None
    /\ "previousClose" \in DOMAIN i => i["previousClose"] # None
    /\ ~(KeyPresent(i, "ebitda") /\ i["ebitda"] # Num(0)
         /\ "enterpriseValue" \in DOMAIN i /\ i["enterpriseValue"] = None)

DigitChars == {Digit(d) : d \in 0..9}
DigitValue(c) == CHOOSE d \in 0..9 : Digit(d) = c

IsYearLabel(x) == Len(x) = 4 /\ \A k \in 1..4 : x[k] \in DigitChars

YearNumber(x) ==
    1000 * DigitValue(x[1]) + 100 * DigitValue(x[2]) + 10 * DigitValue(x[3]) + DigitValue(x[4])

TableNames == {"ratios", "income_statement", "balance_sheet", "cash_flow"}

-----------------------------------------------------------------------------
(* C1: in every returned bundle, a ratio entry whose denominator is exactly *)
(* zero in that year is exactly 0, whatever the numerator, and no ratio     *)
(* entry is infinite or undefined.  The code divides first and replaces     *)
(* only NaN: a non-zero numerator over a zero denominator stays infinite.   *)
C1_ZeroDenominatorGivesZero ==
    GotBundle =>
        LET f == outcome.data.financials
        IN  \A q \in RatioDefs : \A i \in 1..Len(f.ratios) :
              /\ IsFinite(f.ratios[i][q[1]])
              /\ (/\ i <= Len(f[q[4]])
                  /\ q[5] \in DOMAIN f[q[4]][i]
                  /\ f[q[4]][i][q[5]] = Num(0))
                 => f.ratios[i][q[1]] = Num(0)

(* C2: when the info record holds neither currentPrice nor                 *)
(* regularMarketPrice, or is empty, the call returns None and no bundle,   *)
(* whatever the three statement tables contain.                            *)
C2_NoPriceYieldsNone ==
    (Done /\ ~Faulty("info") /\ NoPrice(provider.info)) => outcome = ReturnNone

\* a call that ended in None for a record without prices although the
\* provider has statement tables
C2_Witness ==
    /\ Done
    /\ NoPrice(provider.info)
    /\ provider.info # EmptyInfo
    /\ Len(provider.financials.dates) > 0
    /\ outcome = ReturnNone

(* C3: whenever at least one of currentPrice and regularMarketPrice is     *)
(* present, the call does not end in None but returns a bundle whose       *)
(* current_price is the present price, currentPrice first.  The gate looks *)
(* at regularMarketPrice alone.                                            *)
C3_GateOnlyWhenNoPrice ==
    (Done /\ NoFault /\ ~NoPrice(provider.info)) =>
        /\ outcome.kind = "bundle"
        /\ outcome.data.current_price =
              IF KeyPresent(provider.info, "currentPrice")
              THEN provider.info["currentPrice"]
              ELSE provider.info["regularMarketPrice"]

(* C4: with a valid price and both the income statement and the balance    *)
(* sheet empty, the call ends in None and returns no bundle.  The code has *)
(* no such test and returns a bundle whose tables are empty.               *)
C4_EmptyTablesYieldNone ==
    (/\ Done
     /\ NoFault
     /\ InfoUsable(provider.info)
     /\ Len(provider.financials.dates) = 0
     /\ Len(provider.balance_sheet.dates) = 0)
    => outcome = ReturnNone

(* C5: a line item missing from a raw table never aborts the construction  *)
(* of the bundle: for every ratio whose numerator or denominator item is   *)
(* absent from its raw table a bundle is still returned, and every row of  *)
(* the ratios table (one per entry of its year axis) holds 0 for it.       *)
C5_MissingItemGivesZeroRatio ==
    \A q \in RatioDefs :
        (/\ Done
         /\ NoFault
         /\ InfoUsable(provider.info)
         /\ RawLacks(q[2], q[3]) \/ RawLacks(q[4], q[5]))
        => /\ outcome.kind = "bundle"
           /\ \A i \in 1..Len(outcome.data.financials.ratios) :
                 /\ "years" \in DOMAIN outcome.data.financials.ratios[i]
                 /\ q[1] \in DOMAIN outcome.data.financials.ratios[i]
                 /\ outcome.data.financials.ratios[i][q[1]] = Num(0)

\* a bundle whose ratios table has rows, made from a balance sheet that has
\* rows but no 'Total Current Assets', its liabilities being zero in a year
C5_Witness ==
    /\ GotBundle
    /\ Len(provider.balance_sheet.dates) > 0
    /\ RawLacks("balance_sheet", "Total Current Assets")
    /\ ~RawLacks("balance_sheet", "Total Current Liabilities")
    /\ \E r \in 1..Len(provider.balance_sheet.dates) :
          provider.balance_sheet.rows["Total Current Liabilities"][r] = Num(0)
    /\ Len(outcome.data.financials.ratios) = Len(provider.financials.dates)
    /\ Len(outcome.data.financials.ratios) > 0
    /\ \A i \in 1..Len(outcome.data.financials.ratios) :
          outcome.data.financials.ratios[i]["Current Ratio"] = Num(0)

(* C6: every required line item that is absent from its raw table is, in   *)
(* the bundle's table, an all-zero series with one entry per year.  The    *)
(* code fills NaN cells only; it adds no column.                           *)
C6_MissingItemIsZeroSeries ==
    GotBundle =>
        \A t \in {"income_statement", "balance_sheet"} :
          \A item \in (IF t = "income_statement" THEN IncomeItems ELSE BalanceItems) :
            RawLacks(t, item) =>
              /\ Len(outcome.data.financials[t]) = Len(outcome.data.financials.ratios)
              /\ \A i \in 1..Len(outcome.data.financials[t]) :
                    /\ item \in DOMAIN outcome.data.financials[t][i]
                    /\ outcome.data.financials[t][i][item] = Num(0)

(* C7: in every bundle the 'years' sequences of the four tables are equal  *)
(* in length and content.  The code keeps each table on its own dates.     *)
C7_SameYearAxis ==
    GotBundle =>
        \A t \in TableNames :
            YearsOf(outcome.data.financials[t]) = YearsOf(outcome.data.financials.ratios)

(* C8: in every table of a bundle the year labels are four-digit strings,  *)
(* pairwise distinct and ascending.  The code keeps the provider's order   *)
(* and one row per report date.                                            *)
C8_YearsUniqueAscending ==
    GotBundle =>
        \A t \in TableNames :
            LET ys == YearsOf(outcome.data.financials[t])
            IN  /\ \A i \in 1..Len(ys) : IsYearLabel(ys[i])
                /\ \A i, j \in 1..Len(ys) : i < j => YearNumber(ys[i]) < YearNumber(ys[j])

SameOutcome(a, b) ==
    /\ a.kind = b.kind
    /\ a.kind = "bundle" => a.data = b.data
    /\ a.kind = "raise" => a.error = b.error

(* C9: a call with the symbol and the provider data of an earlier call     *)
(* ends as that call ended, whatever was queried in between.               *)
C9_SameInputsSameOutcome ==
    (/\ Done
     /\ kept # <<>>
     /\ kept[1].arg = arg
     /\ kept[1].provider = provider)
    => SameOutcome(outcome, kept[1].outcome)

\* a bundle with ratio rows is returned again for the inputs of the kept one
C9_Witness ==
    /\ GotBundle
    /\ kept # <<>>
    /\ kept[1].arg = arg
    /\ kept[1].provider = provider
    /\ kept[1].outcome.kind = "bundle"
    /\ Len(outcome.data.financials.ratios) > 0
    /\ outcome.data = kept[1].outcome.data

(* C10: with any info keys absent or null and any table empty, a call that *)
(* meets no fault of the provider ends                                     *)
(* either in None or in a bundle that has every field; no other error      *)
(* reaches the caller.  A null operand raises TypeError.                   *)
C10_NoneOrCompleteBundle ==
    (Done /\ NoFault) =>
        \/ outcome = ReturnNone
        \/ /\ outcome.kind = "bundle"
           /\ DOMAIN outcome.data =
                {"symbol", "company_name", "current_price", "change", "change_percent",
                 "market_cap", "book_value", "dividend_yield", "pe_ratio", "financials",
                 "real_time_metrics"}
           /\ DOMAIN outcome.data.financials = TableNames
           /\ DOMAIN outcome.data.real_time_metrics =
                {"return_on_equity", "debt_to_equity", "free_cashflow", "enterprise_value",
                 "ev_to_ebitda", "fifty_two_week_high", "fifty_two_week_low"}

(* C11: a fault raised by the provider in any of the four fetches makes    *)
(* the call end in None, as for a symbol without a price, and no exception *)
(* reaches the caller.  The function has no handler: the fault of the      *)
(* first faulty accessor it reaches leaves the call as an exception.       *)
C11_FaultYieldsNone ==
    (Done /\ \E a \in Accessors : fetched[a] > 0 /\ Faulty(a))
    => outcome = ReturnNone

\* x is the quotient n / d of two finite numbers, d not zero
IsQuotient(x, n, d) == x[2] # 0 /\ x[1] * d[1] * n[2] = n[1] * d[2] * x[2]

(* C12: in every returned bundle ev_to_ebitda is 0 when the info record's  *)
(* ebitda is absent, null or zero; it is enterpriseValue / ebitda when     *)
(* ebitda is present and not zero, which is 0 when enterpriseValue is      *)
(* absent.                                                                 *)
C12_EvToEbitda ==
    GotBundle =>
        LET i == provider.info
            x == outcome.data.real_time_metrics.ev_to_ebitda
        IN  IF ~KeyPresent(i, "ebitda") \/ i["ebitda"] = Num(0) THEN x = Num(0)
            ELSE IF "enterpriseValue" \notin DOMAIN i THEN x = Num(0)
            ELSE IsQuotient(x, i["enterpriseValue"], i["ebitda"])

\* a bundle for ebitda 0 and an enterprise value that is not 0
C12_Witness ==
    /\ GotBundle
    /\ KeyPresent(provider.info, "ebitda")
    /\ provider.info["ebitda"] = Num(0)
    /\ KeyPresent(provider.info, "enterpriseValue")
    /\ provider.info["enterpriseValue"] # Num(0)
    /\ outcome.data.real_time_metrics.ev_to_ebitda = Num(0)

(* C13: in every returned bundle change_percent is 0 when previousClose is *)
(* absent or zero, and is (current_price - previousClose) / previousClose  *)
(* * 100 when previousClose is present and not zero.                       *)
C13_ChangePercent ==
    GotBundle =>
        LET i == provider.info
            x == outcome.data.change_percent
            c == outcome.data.current_price
        IN  IF "previousClose" \notin DOMAIN i \/ i["previousClose"] = Num(0)
            THEN x = Num(0)
            ELSE LET p == i["previousClose"]
                 IN  /\ x[2] # 0
                     /\ x[1] * c[2] * p[1] = 100 * (c[1] * p[2] - p[1] * c[2]) * x[2]

\* a bundle without a previous close: the price changed by all of itself
\* and the percentage is 0
C13_Witness ==
    /\ GotBundle
    /\ "previousClose" \notin DOMAIN provider.info
    /\ outcome.data.change = outcome.data.current_price
    /\ outcome.data.change # Num(0)
    /\ outcome.data.change_percent = Num(0)

\* the snapshot fields of a bundle and the info keys they are read from
SnapshotFields ==
    {<<"market_cap", "marketCap">>, <<"book_value", "bookValue">>,
     <<"dividend_yield", "dividendYield">>, <<"pe_ratio", "trailingPE">>,
     <<"fifty_two_week_high", "fiftyTwoWeekHigh">>,
     <<"fifty_two_week_low", "fiftyTwoWeekLow">>,
     <<"enterprise_value", "enterpriseValue">>, <<"free_cashflow", "freeCashflow">>,
     <<"debt_to_equity", "debtToEquity">>, <<"return_on_equity", "returnOnEquity">>}

SnapshotValue(data, field) ==
    IF field \in DOMAIN data THEN data[field] ELSE data.real_time_metrics[field]

(* C14 as stated: each of the ten snapshot scalars of a returned bundle is *)
(* 0 exactly when the info record omits its key and is the provider's      *)
(* value otherwise.  A key the provider reports as 0 is not omitted and    *)
(* its field is 0.                                                         *)
C14_ZeroExactlyWhenOmitted ==
    GotBundle =>
        \A f \in SnapshotFields :
            /\ (SnapshotValue(outcome.data, f[1]) = Num(0)) <=> (f[2] \notin DOMAIN provider.info)
            /\ f[2] \in DOMAIN provider.info =>
                  SnapshotValue(outcome.data, f[1]) = provider.info[f[2]]

(* C14: each of the ten snapshot scalars of a returned bundle is 0 when    *)
(* the info record omits its key and is the provider's value (a 0 or a     *)
(* null included) when the key is present; it is thus determined by its    *)
(* own key alone, whatever other snapshot keys are absent.                 *)
C14_DefaultedIndependently ==
    GotBundle =>
        \A f \in SnapshotFields :
            SnapshotValue(outcome.data, f[1]) =
                IF f[2] \in DOMAIN provider.info THEN provider.info[f[2]] ELSE Num(0)

\* a bundle for a record without marketCap whose trailingPE is null
C14_Witness ==
    /\ GotBundle
    /\ "marketCap" \notin DOMAIN provider.info
    /\ "trailingPE" \in DOMAIN provider.info
    /\ provider.info["trailingPE"] = None
    /\ outcome.data.market_cap = Num(0)
    /\ outcome.data.pe_ratio = None
    /\ outcome.data.book_value = provider.info["bookValue"]
    /\ outcome.data.book_value # Num(0)

\* how many times the suffix, in any letter case, stands at the end of s
RECURSIVE TrailingSuffixes(_)
TrailingSuffixes(s) ==
    IF EndsWith(Upper(s), SUFFIX)
    THEN 1 + TrailingSuffixes(SubSeq(s, 1, Len(s) - Len(SUFFIX)))
    ELSE 0

\* the call has taken its symbol
Started == pc # "idle" \/ outcome # Pending

\* '.NS' is appended exactly when the symbol does not end with it in any
\* letter case; the bundle reports the symbol that was queried
SuffixRule ==
    /\ Started =>
          /\ symbol = (IF TrailingSuffixes(arg) = 0 THEN arg \o SUFFIX ELSE arg)
          /\ Suffixed(symbol) = symbol
    /\ GotBundle => outcome.data.symbol = symbol

(* C15 as stated: the suffix is appended exactly when the symbol does not  *)
(* end with it in any letter case, suffixing twice is suffixing once, and  *)
(* the symbol that is queried and reported ends with exactly one suffix.   *)
(* A symbol passed with the suffix twice is left with both.                *)
C15_ExactlyOneSuffix ==
    /\ SuffixRule
    /\ Started => TrailingSuffixes(symbol) = 1

(* C15: the suffix is appended exactly when the symbol does not end with   *)
(* it in any letter case, suffixing twice is suffixing once, and the       *)
(* symbol that is queried and reported ends with as many suffixes as were  *)
(* passed, or with one when none was: no second suffix is ever added.      *)
C15_SuffixedOnce ==
    /\ SuffixRule
    /\ Started => TrailingSuffixes(symbol) = Max(1, TrailingSuffixes(arg))

\* a bundle for a symbol passed with the suffix in lower case
C15_Witness ==
    /\ GotBundle
    /\ arg # Upper(arg)
    /\ TrailingSuffixes(arg) = 1
    /\ outcome.data.symbol = arg

\* the rows of the provider's raw table that report the year labelled y
RawRowsOf(table, y) ==
    {r \in 1..Len(RawOf(table).dates) : StrftimeY(RawOf(table).dates[r]) = y}

\* the raw table reports a number for the item in row r
Reports(table, item, r) == ~RawLacks(table, item) /\ ~IsNaN(RawOf(table).rows[item][r])

(* C16: in every returned bundle each ratio entry of a year for which the  *)
(* provider reports both the numerator and the denominator is their        *)
(* quotient when the denominator is not zero and 0 when it is zero:        *)
(* safeDivide(n, d).  The code pairs rows by position, not by year, and    *)
(* leaves n / 0 infinite.                                                  *)
C16_RatioIsSafeDivide ==
    GotBundle =>
        \A q \in RatioDefs : \A i \in 1..Len(outcome.data.financials.ratios) :
            LET y == outcome.data.financials.ratios[i]["years"]
                x == outcome.data.financials.ratios[i][q[1]]
            IN  \A j \in RawRowsOf(q[2], y) : \A k \in RawRowsOf(q[4], y) :
                    (Reports(q[2], q[3], j) /\ Reports(q[4], q[5], k)) =>
                        LET n == RawOf(q[2]).rows[q[3]][j]
                            d == RawOf(q[4]).rows[q[5]][k]
                        IN  IF d = Num(0) THEN x = Num(0) ELSE IsQuotient(x, n, d)

\* the ratios that divide an income-statement item by a balance-sheet item
CrossTableRatios == {q \in RatioDefs : q[2] # q[4]}

(* C17: in every returned bundle an entry of Return on Equity or Return on *)
(* Assets labelled with a year y, which the income statement and the       *)
(* balance sheet each report at most once, is the quotient of the income   *)
(* value of y and the non-zero balance value of y, and is 0 when the       *)
(* balance sheet has no row of y: values of two different years never      *)
(* meet.  The code divides the k-th income row by the k-th balance row.    *)
C17_SameYearPairing ==
    GotBundle =>
        \A q \in CrossTableRatios : \A i \in 1..Len(outcome.data.financials.ratios) :
            LET y == outcome.data.financials.ratios[i]["years"]
                x == outcome.data.financials.ratios[i][q[1]]
                J == RawRowsOf(q[2], y)
                K == RawRowsOf(q[4], y)
            IN  (Cardinality(J) = 1 /\ Cardinality(K) <= 1) =>
                    IF K = {} THEN x = Num(0)
                    ELSE \A j \in J : \A k \in K :
                           (/\ Reports(q[2], q[3], j)
                            /\ Reports(q[4], q[5], k)
                            /\ RawOf(q[4]).rows[q[5]][k] # Num(0))
                           => IsQuotient(x, RawOf(q[2]).rows[q[3]][j],
                                         RawOf(q[4]).rows[q[5]][k])

(* C18: when the income statement and the balance sheet, the numerator and *)
(* the denominator table of Return on Equity and Return on Assets, report  *)
(* different numbers of years, the call ends in an assertion failure and   *)
(* returns no bundle.  The code asserts nothing: the division pads the     *)
(* shorter series and the assignment cuts the result to the income years.  *)
C18_LengthMismatchAsserted ==
    (/\ Done
     /\ NoFault
     /\ InfoUsable(provider.info)
     /\ Len(provider.financials.dates) > 0
     /\ Len(provider.balance_sheet.dates) > 0
     /\ Len(provider.financials.dates) # Len(provider.balance_sheet.dates))
    => outcome = Raised("AssertionError")

(* C19: no step of a call changes what the provider holds: the info record *)
(* and the three raw tables are after the call what they were before it,   *)
(* although the call fills the missing cells of its own tables in place.   *)
C19_RawDataUntouched == [][provider' = provider]_vars

\* a bundle whose income statement holds 0 in a cell that the provider's
\* raw table still reports as missing
C19_Witness ==
    /\ GotBundle
    /\ \E item \in DOMAIN provider.financials.rows :
          \E r \in 1..Len(provider.financials.dates) :
             /\ IsNaN(provider.financials.rows[item][r])
             /\ outcome.data.financials.income_statement[r][item] = Num(0)

TableAccessors == Accessors \ {"info"}

(* C20: within one call each accessor of the provider is invoked at most   *)
(* once; a statement table is requested only after the info record was     *)
(* fetched and the price gate was passed; a call that ends at the gate has *)
(* requested no statement table.                                           *)
C20_EachAccessorOnce ==
    /\ \A a \in Accessors : fetched[a] <= 1
    /\ (\E t \in TableAccessors : fetched[t] > 0) =>
          /\ fetched["info"] = 1
          /\ info = provider.info
          /\ ~GateFails(info)
          /\ pc \notin {"info", "gate", "basic"}
    /\ (Done /\ outcome = ReturnNone) => \A t \in TableAccessors : fetched[t] = 0

\* a call that failed at the gate by reading the info record once and none
\* of the statement tables the provider holds
C20_Witness ==
    /\ Done
    /\ outcome = ReturnNone
    /\ fetched["info"] = 1
    /\ \A t \in TableAccessors : fetched[t] = 0
    /\ Len(provider.financials.dates) > 0
    /\ Len(provider.balance_sheet.dates) > 0

(* C21 as stated: between the runs of app.py the cache holds the bundle of *)
(* the most recent query, and the dashboard is shown, if that query        *)
(* succeeded; it holds None, and the welcome message is shown, if that     *)
(* query failed or returned no data or Clear Cache was pressed after it.   *)
(* The run of a failed query shows its error and stops before line 230.    *)
C21_CacheOrWelcome ==
    app.phase = "ready" =>
        /\ app.last = "ok" =>
              app.data = Returned(app.result.data) /\ app.shown = "dashboard"
        /\ app.last \in {"failed", "cleared"} =>
              app.data = ReturnNone /\ app.shown = "welcome"

\* the cache and the page between two runs of the script
CacheFollowsLastQuery ==
    app.phase = "ready" =>
        /\ app.last = "start" => app.data = NoData /\ app.shown = "welcome"
        /\ app.last = "ok" =>
              /\ app.result.kind = "bundle"
              /\ app.data = Returned(app.result.data)
              /\ app.shown = "dashboard"
        /\ app.last = "failed" =>
              /\ app.result.kind \in {"None", "raise"}
              /\ app.data = ReturnNone
              /\ app.shown \in {"error", "welcome"}
        /\ app.last = "cleared" => app.data = ReturnNone /\ app.shown = "welcome"

\* a run that makes no query and clears nothing shows what the cache holds
\* and leaves the cache and the provider's accessors alone
RerunShowsCache ==
    (app.phase = "ready" /\ app'.phase = "ready" /\ app'.last = app.last) =>
        /\ app'.data = app.data
        /\ app'.shown = DisplayOf(app.data)
        /\ fetched' = fetched
        /\ pc' = pc

(* C21: between the runs of app.py the cache holds the bundle of the most  *)
(* recent query, and the dashboard is shown, if that query succeeded; it   *)
(* holds None and no dashboard is shown if that query failed or returned   *)
(* no data (its own run shows the error, any later run the welcome         *)
(* message) or Clear Cache was pressed after it (welcome message); a run   *)
(* without a query shows the cached bundle and calls no accessor.          *)
C21_CacheFollowsLastQuery == []CacheFollowsLastQuery /\ [][RerunShowsCache]_vars

\* the page after a query failed that followed a successful one: the
\* earlier bundle is gone and the error is shown
C21_Witness ==
    /\ app.phase = "ready"
    /\ app.last = "failed"
    /\ app.earlier.kind = "bundle"
    /\ app.data = ReturnNone
    /\ app.shown = "error"

\* both modules have been called for the same symbol and provider data
BothDone ==
    /\ Done
    /\ engine = "real_time_financial_dashboard"
    /\ kept # <<>>
    /\ kept[1].arg = arg
    /\ kept[1].provider = provider

(* C22: for a provider whose accessors answer, the get_screener_data of    *)
(* src/real_time.py and of src/real_time_financial_dashboard.py return     *)
(* identical bundles when the info record has a non-null                   *)
(* regularMarketPrice; otherwise the first returns None and the second a   *)
(* bundle whose current_price is currentPrice or, without it, 0.  A null   *)
(* operand raises TypeError in both, and in the second alone where the     *)
(* first stops at its gate.                                                *)
C22_VariantsAgreePastGate ==
    (BothDone /\ NoFault) =>
        IF KeyPresent(provider.info, "regularMarketPrice")
        THEN /\ kept[1].outcome.kind = "bundle"
             /\ outcome.kind = "bundle"
             /\ outcome.data = kept[1].outcome.data
        ELSE /\ kept[1].outcome = ReturnNone
             /\ outcome.kind = "bundle"
             /\ outcome.data.current_price =
                   (IF "currentPrice" \in DOMAIN provider.info
                    THEN provider.info["currentPrice"] ELSE Num(0))

====
